---- MODULE Spec2Model ----
(***************************************************************************)
(* ArchExtractor (src/src/archextractor/archextractor.py): recursive       *)
(* extraction of nested archives on top of patoolib.                       *)
(*                                                                         *)
(* The state is the filesystem, the call stack of extractall, the one      *)
(* active call of extract with its position, the position of os.walk in    *)
(* the finalizer, and a trace of the calls made to the backend and to the  *)
(* filesystem.  A file name is the sequence of its dot-separated pieces    *)
(* with the dots kept as pieces (outer.zip is <<"outer", ".", "zip">>), a  *)
(* path is the sequence of its names.                                      *)
(***************************************************************************)
EXTENDS Integers, Sequences, FiniteSets, TLC

(***************************************************************************)
(* Bounds of the model: how many times the environment may fail.           *)
(***************************************************************************)
\* filesystem failures (OSError from shutil.rmtree / os.remove) per run
MaxFsFaults == 1
\* backend failures of extract_archive on a well-formed archive per run
MaxBackendFaults == 1

(***************************************************************************)
(* Names and paths                                                         *)
(***************************************************************************)
Plain(s) == <<s>>
WithExt(s, e) == <<s, ".", e>>

\* os.path.basename(src): the last name of the path
basename(p) == p[Len(p)]

\* os.path.join(dir, name)
join(dir, name) == Append(dir, name)

\* index of the last dot piece of a name, 0 when there is none
LastDot(name) ==
    LET dots == {i \in DOMAIN name : name[i] = "."}
    IN  IF dots = {} THEN 0 ELSE CHOOSE i \in dots : \A j \in dots : j <= i

\* os.path.splitext(name): the split is at the last dot, unless only dots
\* come before it (leading dots are part of the root)
HasExt(name) ==
    /\ LastDot(name) > 0
    /\ \E j \in 1..(LastDot(name) - 1) : name[j] # "."

splitext_root(name) ==
    IF HasExt(name) THEN SubSeq(name, 1, LastDot(name) - 1) ELSE name

splitext_ext(name) ==
    IF HasExt(name) THEN SubSeq(name, LastDot(name) + 1, Len(name)) ELSE <<>>

\* extensions the backend's format registry knows
ArchiveExts == {<<"zip">>, <<"tar">>}

\* patoolib.is_archive(path): classification by the name alone
is_archive(p) == splitext_ext(basename(p)) \in ArchiveExts

\* names the artifact predicate recognises
ArtifactNames == {Plain("__MACOSX"), <<".", "DS_Store">>, WithExt("Thumbs", "db")}

\* utils.is_auto_generated(path): byproducts of the extraction tool or the OS
is_auto_generated(p) ==
    \/ basename(p) \in ArtifactNames
    \/ basename(p)[1] = "._"

IsPrefix(p, q) == Len(p) <= Len(q) /\ SubSeq(q, 1, Len(p)) = p

(***************************************************************************)
(* The filesystem: a function from the existing paths to "dir" or to the   *)
(* content (a blob) of a regular file.                                     *)
(***************************************************************************)
exists(f, p) == p \in DOMAIN f
isdir(f, p) == p \in DOMAIN f /\ f[p] = "dir"
isfile(f, p) == p \in DOMAIN f /\ f[p] # "dir"

\* os.listdir(dir) / os.scandir(dir): the names of the direct children
listdir(f, dir) ==
    {basename(q) : q \in {r \in DOMAIN f : Len(r) = Len(dir) + 1 /\ IsPrefix(dir, r)}}

Restrict(f, S) == [p \in S |-> f[p]]

\* os.remove(path)
remove(f, p) == Restrict(f, DOMAIN f \ {p})

\* shutil.rmtree(path): the directory with everything below it
rmtree(f, p) == Restrict(f, {q \in DOMAIN f : ~IsPrefix(p, q)})

\* shutil.rmtree(path) raising OSError: the tree is taken down entry by
\* entry, so when a removal is refused some children are already gone
\* (done), at most one directory among the others is itself partly taken
\* down, and path is still there
RECURSIVE rmtree_refused(_, _)
rmtree_refused(f, p) ==
    LET kids == {q \in DOMAIN f : Len(q) = Len(p) + 1 /\ IsPrefix(p, q)}
        without(done) == Restrict(f, {q \in DOMAIN f : \A d \in done : ~IsPrefix(d, q)})
    IN  UNION {{without(done)}
                 \cup UNION {rmtree_refused(without(done), c) :
                                c \in {k \in kids \ done : isdir(f, k)}}
               : done \in SUBSET kids}

\* all orders in which the names of S can be listed
Orders(S) ==
    {s \in [1..Cardinality(S) -> S] : \A i, j \in DOMAIN s : i # j => s[i] # s[j]}

Reverse(s) == [i \in DOMAIN s |-> s[Len(s) + 1 - i]]

(***************************************************************************)
(* The backend's view of file contents.  A blob is the content of a        *)
(* regular file; an archive blob decodes to a set of entries, each a path  *)
(* relative to the output directory with "dir" or the blob of a file.      *)
(***************************************************************************)
Entry(rel, node) == [rel |-> rel, node |-> node]

Content(blob) ==
    CASE blob = "zOuter" ->
           {Entry(<<Plain("outer")>>, "dir"),
            Entry(<<Plain("outer"), WithExt("inner", "zip")>>, "zInner")}
      [] blob = "zInner" ->
           {Entry(<<Plain("inner")>>, "dir"),
            Entry(<<Plain("inner"), WithExt("leaf", "txt")>>, "data")}
      [] blob = "zTop" ->
           {Entry(<<Plain("top")>>, "dir"),
            Entry(<<Plain("top"), WithExt("good", "zip")>>, "zGood"),
            Entry(<<Plain("top"), WithExt("bad", "zip")>>, "corrupt")}
      [] blob = "zGood" ->
           {Entry(<<Plain("good")>>, "dir"),
            Entry(<<Plain("good"), WithExt("leaf", "txt")>>, "data")}
      [] blob = "zPack" ->
           {Entry(<<Plain("pack")>>, "dir"),
            Entry(<<Plain("pack"), Plain("sub")>>, "dir"),
            Entry(<<Plain("pack"), Plain("sub"), WithExt("deep", "zip")>>, "zGood")}
      [] blob = "zMac" ->
           {Entry(<<Plain("mac")>>, "dir"),
            Entry(<<Plain("mac"), WithExt("leaf", "txt")>>, "data"),
            Entry(<<Plain("mac"), <<".", "DS_Store">>>>, "data"),
            Entry(<<Plain("mac"), Plain("sub")>>, "dir"),
            Entry(<<Plain("mac"), Plain("sub"), WithExt("Thumbs", "db")>>, "data"),
            Entry(<<Plain("__MACOSX")>>, "dir"),
            Entry(<<Plain("__MACOSX"), <<"._", "leaf", ".", "txt">>>>, "data")}
      [] blob = "zSet" ->
           {Entry(<<Plain("set")>>, "dir"),
            Entry(<<Plain("set"), WithExt("a", "zip")>>, "zA"),
            Entry(<<Plain("set"), WithExt("a", "tar")>>, "corrupt")}
      [] blob = "zA" ->
           {Entry(<<Plain("a")>>, "dir"),
            Entry(<<Plain("a"), WithExt("x", "zip")>>, "zGood")}
      [] blob = "zBundle" ->
           {Entry(<<Plain("bundle")>>, "dir"),
            Entry(<<Plain("bundle"), <<".", "DS_Store">>>>, "data"),
            Entry(<<Plain("bundle"), WithExt("part", "zip")>>, "zPart")}
      [] blob = "zPart" ->
           {Entry(<<Plain("part")>>, "dir"),
            Entry(<<Plain("part"), WithExt("leaf", "txt")>>, "data"),
            Entry(<<Plain("part"), WithExt("Thumbs", "db")>>, "data"),
            Entry(<<Plain("__MACOSX")>>, "dir")}
      [] blob = "zPkg" ->
           {Entry(<<Plain("pkg")>>, "dir"),
            Entry(<<Plain("pkg"), WithExt("leaf", "txt")>>, "data")}
      [] OTHER -> {}

\* the blobs the backend can decode
WellFormed ==
    {"zOuter", "zInner", "zTop", "zGood", "zPack", "zMac", "zSet", "zA", "zPkg",
     "zBundle", "zPart"}

\* patoolib.test_archive(src, ...): succeeds on an existing regular file
\* whose content decodes, raises PatoolError otherwise
probe_ok(f, src) == isfile(f, src) /\ f[src] \in WellFormed

\* what patoolib.extract_archive(src, outdir=dst) writes: the entries of the
\* archive, below dst
Written(f, src, dst) == {[p |-> dst \o e.rel, node |-> e.node] : e \in Content(f[src])}

unpack(f, src, dst) ==
    LET new == Written(f, src, dst)
        at(p) == CHOOSE w \in new : w.p = p
    IN  [p \in DOMAIN f \cup {w.p : w \in new} |->
            IF p \in {w.p : w \in new} THEN at(p).node ELSE f[p]]

(***************************************************************************)
(* The requests of the model: the filesystem before the call, the source   *)
(* and the destination.                                                    *)
(***************************************************************************)
Data == <<Plain("Data")>>

FsOf(S) == [p \in {e.p : e \in S} |-> (CHOOSE e \in S : e.p = p).node]

At(p, node) == [p |-> p, node |-> node]

Worlds ==
    {"nested", "siblings", "subdir", "artifacts", "plain", "samestem", "selfsrc",
     "macnested"}

WorldSrc(w) ==
    CASE w = "nested" -> join(Data, WithExt("outer", "zip"))
      [] w = "siblings" -> join(Data, WithExt("top", "zip"))
      [] w = "subdir" -> join(Data, WithExt("pack", "zip"))
      [] w = "artifacts" -> join(Data, WithExt("mac", "zip"))
      [] w = "plain" -> join(Data, WithExt("notes", "txt"))
      [] w = "samestem" -> join(Data, WithExt("set", "zip"))
      [] w = "selfsrc" -> join(Data, <<"._", "pkg", ".", "zip">>)
      [] w = "macnested" -> join(Data, WithExt("bundle", "zip"))

WorldFs(w) ==
    CASE w = "nested" -> FsOf({At(Data, "dir"), At(WorldSrc(w), "zOuter")})
      [] w = "siblings" -> FsOf({At(Data, "dir"), At(WorldSrc(w), "zTop")})
      [] w = "subdir" -> FsOf({At(Data, "dir"), At(WorldSrc(w), "zPack")})
      [] w = "artifacts" -> FsOf({At(Data, "dir"), At(WorldSrc(w), "zMac")})
      [] w = "plain" ->
           FsOf({At(Data, "dir"), At(WorldSrc(w), "data"),
                 At(join(Data, <<".", "DS_Store">>), "data"),
                 At(join(Data, Plain("notes")), "dir"),
                 At(join(join(Data, Plain("notes")), WithExt("old", "zip")), "zGood")})
      [] w = "samestem" -> FsOf({At(Data, "dir"), At(WorldSrc(w), "zSet")})
      [] w = "selfsrc" -> FsOf({At(Data, "dir"), At(WorldSrc(w), "zPkg")})
      [] w = "macnested" -> FsOf({At(Data, "dir"), At(WorldSrc(w), "zBundle")})

\* the option set of a call: verbosity, program, interactive, password, cleanup
Options(pw, cleanup) ==
    [verbosity |-> -1, program |-> "auto", interactive |-> FALSE,
     password |-> pw, cleanup |-> cleanup]

OptionSets == {Options(pw, c) : pw \in {"none", "secret"}, c \in BOOLEAN}

(***************************************************************************)
(* State                                                                   *)
(***************************************************************************)
VARIABLES
    req,      \* the top-level request: world, mode, src, dst, opts
    fs,       \* the filesystem
    stack,    \* the active calls of extractall, innermost last
    ex,       \* the active call of extract and its position
    walk,     \* the position of os.walk in the finalizer of extract
    trace,    \* the calls made so far, in order
    faults,   \* how many more times the environment may fail
    status    \* "ready", "running", "done" or "crashed" (an exception left the top call)

vars == <<req, fs, stack, ex, walk, trace, faults, status>>

\* one event of the trace: what was called, by which call of extract (or of
\* extractall), on which paths, whether it succeeded, and whether src
\* existed at that moment
Ev(k, id, src, dst, ok, there, opts) ==
    [k |-> k, id |-> id, src |-> src, dst |-> dst, ok |-> ok, there |-> there, opts |-> opts]

Count(k) == Cardinality({i \in DOMAIN trace : trace[i].k = k})

\* a call of extractall: its arguments, its position, extract_dir, the
\* names os.listdir gave and those the loop has still to visit
Frame(id, src, dst, opts) ==
    [id |-> id, src |-> src, dst |-> dst, opts |-> opts, pc |-> "extract",
     dir |-> <<>>, listed |-> {}, todo |-> <<>>]

\* a call of extract: its arguments, its position, the exception that is
\* on its way out of it, the filesystem as it was when the call began (fs0)
\* and as it was when its cleaning pass began (fs1)
Call(id, src, dst, opts, f) ==
    [id |-> id, src |-> src, dst |-> dst, opts |-> opts, pc |-> "test",
     pending |-> "none", fs0 |-> f, fs1 |-> f]

Idle == [id |-> 0, src |-> <<>>, dst |-> <<>>, opts |-> Options("none", FALSE),
         pc |-> "idle", pending |-> "none", fs0 |-> <<>>, fs1 |-> <<>>]

NoWalk == [stack |-> <<>>, root |-> <<>>, dirs |-> <<>>, files |-> <<>>]

Top == stack[Len(stack)]

SetTop(f) == [stack EXCEPT ![Len(stack)] = f]

Init ==
    /\ \E w \in Worlds, m \in {"extract", "extractall"}, o \in OptionSets :
          /\ req = [world |-> w, mode |-> m, src |-> WorldSrc(w), dst |-> Data, opts |-> o]
          /\ fs = WorldFs(w)
    /\ stack = <<>>
    /\ ex = Idle
    /\ walk = NoWalk
    /\ trace = <<>>
    /\ faults = [fs |-> MaxFsFaults, backend |-> MaxBackendFaults]
    /\ status = "ready"

(***************************************************************************)
(* The decisions of the code                                               *)
(***************************************************************************)
\* a slip: the except clause of test_archive names the wrong exception
TestCatchesOSError(exc) == exc = "OSError"

\* test_archive: except PatoolError
TestCatches(exc) == exc = "PatoolError"

\* a slip: the except clause of test_archive falls through to return True
ProbeErrorResultTrue == TRUE

\* test_archive: what the except clause returns
ProbeErrorResult == FALSE

\* a slip: the result of test_archive is not looked at
ExtractProceedsAlways(valid) == TRUE

\* extract: if not self.test_archive(...): return
ExtractProceeds(valid) == valid

\* extract: except PatoolError
ExtractCatches(exc) == exc = "PatoolError"

\* a slip: the except clause of the finalizer names the wrong exception
FinalizerCatchesPatoolError(exc) == exc = "PatoolError"

\* extract, finalizer: except OSError
FinalizerCatches(exc) == exc = "OSError"

\* a slip: the cleanup flag is not looked at
DeleteGuardNoCleanup(cleanup, there) == there

\* a slip: the existence of src is not checked
DeleteGuardNoExists(cleanup, there) == cleanup

\* extract, finalizer: if cleanup and os.path.exists(src)
DeleteGuard(cleanup, there) == cleanup /\ there

\* a slip: whatever the walk meets is removed
RemoveGuardAny(f, p) == exists(f, p)

\* extract, finalizer: is_auto_generated(path) and os.path.exists(path)
RemoveGuard(f, p) == is_auto_generated(p) /\ exists(f, p)

\* a slip: the extension is left on the name of the directory
extract_dir_keeps_ext(src, dst) == join(dst, basename(src))

\* extractall: os.path.join(dst, os.path.splitext(os.path.basename(src))[0])
extract_dir(src, dst) == join(dst, splitext_root(basename(src)))

\* extractall: not (not os.path.exists(extract_dir) or not os.path.isdir(extract_dir))
Descends(f, dir) == exists(f, dir) /\ isdir(f, dir)

\* a slip: the recursive call leaves the password out
RecursiveOptsDropPassword(opts) == [opts EXCEPT !.password = "none"]

\* a slip: the recursive call leaves cleanup at its default
RecursiveOptsDefaultCleanup(opts) == [opts EXCEPT !.cleanup = FALSE]

\* extractall: the options of the recursive call
RecursiveOpts(opts) == opts

\* extractall: the recursive call on a child of extract_dir
RecursiveCall(id, frame, sub_file) == Frame(id, sub_file, frame.dir, RecursiveOpts(frame.opts))

(***************************************************************************)
(* The top-level calls                                                     *)
(***************************************************************************)
InvokeExtractAll ==
    /\ status = "ready" /\ req.mode = "extractall"
    /\ stack' = <<Frame(1, req.src, req.dst, req.opts)>>
    /\ trace' = <<Ev("extractall", 1, req.src, req.dst, TRUE, exists(fs, req.src), req.opts)>>
    /\ status' = "running"
    /\ UNCHANGED <<req, fs, ex, walk, faults>>

InvokeExtract ==
    /\ status = "ready" /\ req.mode = "extract"
    /\ ex' = Call(1, req.src, req.dst, req.opts, fs)
    /\ trace' = <<Ev("extract", 1, req.src, req.dst, TRUE, exists(fs, req.src), req.opts)>>
    /\ status' = "running"
    /\ UNCHANGED <<req, fs, stack, walk, faults>>

\* an exception leaves extract: extractall has no handler, so it leaves
\* every active call
Crash ==
    /\ status' = "crashed"
    /\ stack' = <<>>
    /\ ex' = Idle
    /\ walk' = NoWalk

(***************************************************************************)
(* extractall                                                              *)
(***************************************************************************)
\* self.extract(src=src, dst=dst, ...)
CallExtract ==
    /\ status = "running" /\ stack # <<>> /\ Top.pc = "extract" /\ ex.pc = "idle"
    /\ LET id == Count("extract") + 1
       IN  /\ ex' = Call(id, Top.src, Top.dst, Top.opts, fs)
           /\ trace' = Append(trace, Ev("extract", id, Top.src, Top.dst, TRUE,
                                        exists(fs, Top.src), Top.opts))
    /\ stack' = SetTop([Top EXCEPT !.pc = "wait"])
    /\ UNCHANGED <<req, fs, walk, faults, status>>

\* the call returns: to its caller's loop, or out of the top-level call
ReturnFromExtractAll ==
    /\ stack' = SubSeq(stack, 1, Len(stack) - 1)
    /\ status' = IF Len(stack) = 1 THEN "done" ELSE status

\* the trace's record of that return
Leave == Ev("leave", Top.id, Top.src, Top.dst, TRUE, exists(fs, Top.src), Top.opts)

\* extract_dir is computed; without such a directory the call returns,
\* otherwise its children are listed
Descend ==
    /\ status = "running" /\ stack # <<>> /\ Top.pc = "descend"
    /\ LET dir == extract_dir(Top.src, Top.dst)
           looked == Ev("listdir", Top.id, Top.src, dir, Descends(fs, dir),
                        exists(fs, Top.src), Top.opts)
       IN  IF ~Descends(fs, dir)
           THEN /\ ReturnFromExtractAll
                /\ trace' = trace \o <<looked, Leave>>
           ELSE /\ \E order \in Orders(listdir(fs, dir)) :
                      stack' = SetTop([Top EXCEPT !.pc = "loop", !.dir = dir,
                                                  !.listed = listdir(fs, dir),
                                                  !.todo = order])
                /\ trace' = Append(trace, looked)
                /\ UNCHANGED status
    /\ UNCHANGED <<req, fs, ex, walk, faults>>

\* for file in os.listdir(extract_dir): a child that is not an archive
LoopSkip ==
    /\ status = "running" /\ stack # <<>> /\ Top.pc = "loop" /\ Top.todo # <<>>
    /\ ~is_archive(join(Top.dir, Head(Top.todo)))
    /\ stack' = SetTop([Top EXCEPT !.todo = Tail(Top.todo)])
    /\ UNCHANGED <<req, fs, ex, walk, trace, faults, status>>

\* for file in os.listdir(extract_dir): self.extractall(src=sub_file, dst=extract_dir, ...)
LoopRecurse ==
    /\ status = "running" /\ stack # <<>> /\ Top.pc = "loop" /\ Top.todo # <<>>
    /\ LET sub_file == join(Top.dir, Head(Top.todo))
           id == Count("extractall") + 1
           callee == RecursiveCall(id, Top, sub_file)
       IN  /\ is_archive(sub_file)
           /\ stack' = Append(SetTop([Top EXCEPT !.todo = Tail(Top.todo)]), callee)
           /\ trace' = Append(trace, Ev("extractall", id, callee.src, callee.dst, TRUE,
                                        exists(fs, callee.src), callee.opts))
    /\ UNCHANGED <<req, fs, ex, walk, faults, status>>

\* the loop is over
LoopEnd ==
    /\ status = "running" /\ stack # <<>> /\ Top.pc = "loop" /\ Top.todo = <<>>
    /\ ReturnFromExtractAll
    /\ trace' = Append(trace, Leave)
    /\ UNCHANGED <<req, fs, ex, walk, faults>>

(***************************************************************************)
(* test_archive, called by extract                                         *)
(***************************************************************************)
Log(k, ok) == Ev(k, ex.id, ex.src, ex.dst, ok, exists(fs, ex.src), ex.opts)

\* a slip: the test stands inside the try block, so that an early return
\* runs the finalizer
AfterTestInsideTry(valid) == IF ExtractProceeds(valid) THEN "unpack" ELSE "finally"

\* where extract goes once test_archive has returned
AfterTest(valid) == IF ExtractProceeds(valid) THEN "unpack" ELSE "ret"

\* the rough screening: patoolib.is_archive(src)
TestCoarse ==
    /\ status = "running" /\ ex.pc = "test"
    /\ IF is_archive(ex.src)
       THEN /\ ex' = [ex EXCEPT !.pc = "probe"]
            /\ UNCHANGED trace
       ELSE /\ ex' = [ex EXCEPT !.pc = AfterTest(FALSE)]
            /\ trace' = Append(trace, Log("validate", FALSE))
    /\ UNCHANGED <<req, fs, stack, walk, faults, status>>

\* the fine screening: patoolib.test_archive(src, ...) succeeds
TestProbeOk ==
    /\ status = "running" /\ ex.pc = "probe"
    /\ probe_ok(fs, ex.src)
    /\ ex' = [ex EXCEPT !.pc = AfterTest(TRUE)]
    /\ trace' = trace \o <<Log("probe", TRUE), Log("validate", TRUE)>>
    /\ UNCHANGED <<req, fs, stack, walk, faults, status>>

\* the fine screening: patoolib.test_archive(src, ...) raises PatoolError
TestProbeFails ==
    /\ status = "running" /\ ex.pc = "probe"
    /\ ~probe_ok(fs, ex.src)
    /\ IF TestCatches("PatoolError")
       THEN /\ ex' = [ex EXCEPT !.pc = AfterTest(ProbeErrorResult)]
            /\ trace' = trace \o <<Log("probe", FALSE), Log("validate", ProbeErrorResult)>>
            /\ UNCHANGED <<stack, walk, status>>
       ELSE /\ trace' = Append(trace, Log("probe", FALSE))
            /\ Crash
    /\ UNCHANGED <<req, fs, faults>>

(***************************************************************************)
(* extract                                                                 *)
(***************************************************************************)
\* patoolib.extract_archive(src, outdir=dst, ...) succeeds
UnpackOk ==
    /\ status = "running" /\ ex.pc = "unpack"
    /\ probe_ok(fs, ex.src)
    /\ fs' = unpack(fs, ex.src, ex.dst)
    /\ ex' = [ex EXCEPT !.pc = "finally"]
    /\ trace' = Append(trace, Log("unpack", TRUE))
    /\ UNCHANGED <<req, stack, walk, faults, status>>

\* patoolib.extract_archive raises PatoolError: on a file that does not
\* decode, or on a failure of the backend, which may have written the
\* entries before it failed
UnpackFails ==
    /\ status = "running" /\ ex.pc = "unpack"
    /\ \/ /\ ~probe_ok(fs, ex.src)
          /\ UNCHANGED <<fs, faults>>
       \/ /\ probe_ok(fs, ex.src)
          /\ faults.backend > 0
          /\ faults' = [faults EXCEPT !.backend = @ - 1]
          /\ \E wrote \in BOOLEAN :
                fs' = IF wrote THEN unpack(fs, ex.src, ex.dst) ELSE fs
    /\ ex' = [ex EXCEPT !.pc = "finally",
                        !.pending = IF ExtractCatches("PatoolError") THEN "none"
                                    ELSE "PatoolError"]
    /\ trace' = Append(trace, Log("unpack", FALSE))
    /\ UNCHANGED <<req, stack, walk, status>>

\* a slip: only the top-level call walks its destination
FinallyEnterTopOnly ==
    /\ status = "running" /\ ex.pc = "finally"
    /\ ex' = [ex EXCEPT !.pc = "walk", !.fs1 = fs]
    /\ walk' = [NoWalk EXCEPT !.stack = IF ex.id = 1 THEN <<ex.dst>> ELSE <<>>]
    /\ trace' = Append(trace, Log("finally", TRUE))
    /\ UNCHANGED <<req, fs, stack, faults, status>>

\* finally: the walk over dst starts
FinallyEnter ==
    /\ status = "running" /\ ex.pc = "finally"
    /\ ex' = [ex EXCEPT !.pc = "walk", !.fs1 = fs]
    /\ walk' = [NoWalk EXCEPT !.stack = <<ex.dst>>]
    /\ trace' = Append(trace, Log("finally", TRUE))
    /\ UNCHANGED <<req, fs, stack, faults, status>>

\* an OSError in the finalizer: absorbed by except OSError, which ends the
\* finalizer where it is
FinalizerError ==
    /\ ex' = [ex EXCEPT !.pc = "ret",
                        !.pending = IF FinalizerCatches("OSError") THEN ex.pending
                                    ELSE "OSError"]
    /\ walk' = NoWalk

\* os.walk: the next directory is taken from the stack and scanned; a
\* directory that has vanished is passed over; with the stack empty the walk
\* is over
WalkNext ==
    /\ status = "running" /\ ex.pc = "walk"
    /\ walk.dirs = <<>> /\ walk.files = <<>>
    /\ IF walk.stack = <<>>
       THEN /\ ex' = [ex EXCEPT !.pc = "remove"]
            /\ walk' = NoWalk
            /\ trace' = Append(trace, Log("clean", TRUE))
       ELSE LET top == walk.stack[Len(walk.stack)]
                rest == SubSeq(walk.stack, 1, Len(walk.stack) - 1)
                names == listdir(fs, top)
            IN  /\ IF ~isdir(fs, top)
                   THEN walk' = [walk EXCEPT !.stack = rest]
                   ELSE \E ds \in Orders({n \in names : isdir(fs, join(top, n))}),
                           fl \in Orders({n \in names : ~isdir(fs, join(top, n))}) :
                           walk' = [stack |-> rest \o [i \in DOMAIN ds |-> join(top, Reverse(ds)[i])],
                                    root |-> top, dirs |-> ds, files |-> fl]
                /\ UNCHANGED <<ex, trace>>
    /\ UNCHANGED <<req, fs, stack, faults, status>>

\* a slip: the loop over dirs removes nothing
WalkDirKeeps ==
    /\ status = "running" /\ ex.pc = "walk" /\ walk.dirs # <<>>
    /\ walk' = [walk EXCEPT !.dirs = Tail(walk.dirs)]
    /\ UNCHANGED <<req, fs, stack, ex, trace, faults, status>>

\* for dir in dirs: shutil.rmtree(dir_path) when it is an artifact that exists
WalkDir ==
    /\ status = "running" /\ ex.pc = "walk" /\ walk.dirs # <<>>
    /\ LET dir_path == join(walk.root, Head(walk.dirs))
       IN  \/ /\ fs' = IF RemoveGuard(fs, dir_path) THEN rmtree(fs, dir_path) ELSE fs
              /\ walk' = [walk EXCEPT !.dirs = Tail(walk.dirs)]
              /\ UNCHANGED <<ex, trace, faults>>
           \/ /\ RemoveGuard(fs, dir_path)
              /\ faults.fs > 0
              /\ faults' = [faults EXCEPT !.fs = @ - 1]
              /\ FinalizerError
              /\ trace' = Append(trace, Log("clean", FALSE))
              /\ fs' \in rmtree_refused(fs, dir_path)
    /\ UNCHANGED <<req, stack, status>>

\* a slip: the list of files is edited while it is walked, so the entry
\* after a removed file is passed over
WalkFileSkipsNext ==
    /\ status = "running" /\ ex.pc = "walk" /\ walk.dirs = <<>> /\ walk.files # <<>>
    /\ LET file_path == join(walk.root, Head(walk.files))
           rest == Tail(walk.files)
       IN  IF RemoveGuard(fs, file_path)
           THEN /\ fs' = remove(fs, file_path)
                /\ walk' = [walk EXCEPT !.files = IF rest = <<>> THEN rest ELSE Tail(rest)]
           ELSE /\ fs' = fs
                /\ walk' = [walk EXCEPT !.files = rest]
    /\ UNCHANGED <<req, stack, ex, trace, faults, status>>

\* for file in files: os.remove(file_path) when it is an artifact that exists
WalkFile ==
    /\ status = "running" /\ ex.pc = "walk" /\ walk.dirs = <<>> /\ walk.files # <<>>
    /\ LET file_path == join(walk.root, Head(walk.files))
       IN  \/ /\ fs' = IF RemoveGuard(fs, file_path) THEN remove(fs, file_path) ELSE fs
              /\ walk' = [walk EXCEPT !.files = Tail(walk.files)]
              /\ UNCHANGED <<ex, trace, faults>>
           \/ /\ RemoveGuard(fs, file_path)
              /\ faults.fs > 0
              /\ faults' = [faults EXCEPT !.fs = @ - 1]
              /\ FinalizerError
              /\ trace' = Append(trace, Log("clean", FALSE))
              /\ UNCHANGED fs
    /\ UNCHANGED <<req, stack, status>>

\* if cleanup and os.path.exists(src): os.remove(src)
RemoveSource ==
    /\ status = "running" /\ ex.pc = "remove"
    /\ DeleteGuard(ex.opts.cleanup, exists(fs, ex.src))
    /\ \/ /\ exists(fs, ex.src)
          /\ fs' = remove(fs, ex.src)
          /\ ex' = [ex EXCEPT !.pc = "ret"]
          /\ walk' = walk
          /\ trace' = Append(trace, Log("remove", TRUE))
          /\ UNCHANGED faults
       \/ /\ \/ ~exists(fs, ex.src) /\ UNCHANGED faults
             \/ /\ exists(fs, ex.src)
                /\ faults.fs > 0
                /\ faults' = [faults EXCEPT !.fs = @ - 1]
          /\ FinalizerError
          /\ trace' = Append(trace, Log("remove", FALSE))
          /\ UNCHANGED fs
    /\ UNCHANGED <<req, stack, status>>

\* cleanup is off or src is gone: nothing is deleted
KeepSource ==
    /\ status = "running" /\ ex.pc = "remove"
    /\ ~DeleteGuard(ex.opts.cleanup, exists(fs, ex.src))
    /\ ex' = [ex EXCEPT !.pc = "ret"]
    /\ UNCHANGED <<req, fs, stack, walk, trace, faults, status>>

\* extract returns, or the exception that no clause caught leaves it
Return ==
    /\ status = "running" /\ ex.pc = "ret"
    /\ trace' = Append(trace, Log("return", ex.pending = "none"))
    /\ IF ex.pending # "none"
       THEN Crash
       ELSE /\ ex' = Idle
            /\ walk' = NoWalk
            /\ IF stack = <<>>
               THEN stack' = stack /\ status' = "done"
               ELSE stack' = SetTop([Top EXCEPT !.pc = "descend"]) /\ status' = status
    /\ UNCHANGED <<req, fs, faults>>

Next ==
    \/ InvokeExtractAll
    \/ InvokeExtract
    \/ CallExtract
    \/ Descend
    \/ LoopSkip
    \/ LoopRecurse
    \/ LoopEnd
    \/ TestCoarse
    \/ TestProbeOk
    \/ TestProbeFails
    \/ UnpackOk
    \/ UnpackFails
    \/ FinallyEnter
    \/ WalkNext
    \/ WalkDir
    \/ WalkFile
    \/ RemoveSource
    \/ KeepSource
    \/ Return

Spec == Init /\ [][Next]_vars

(***************************************************************************)
(* Properties                                                              *)
(***************************************************************************)
Events(k) == {i \in DOMAIN trace : trace[i].k = k}

\* the events of kind k made by the call of extract numbered id
EventsOf(k, id) == {i \in Events(k) : trace[i].id = id}

NoFaultYet == faults = [fs |-> MaxFsFaults, backend |-> MaxBackendFaults]

\* C1: the backend's unpack is invoked on a source only after the validation
\* of that source returned true in the same call of extract, and a call
\* whose validation returned false never invokes it.
C1_UnpackOnlyAfterValidation ==
    /\ \A i \in Events("unpack") :
          \E j \in EventsOf("validate", trace[i].id) :
             j < i /\ trace[j].ok /\ trace[j].src = trace[i].src
    /\ \A j \in Events("validate") :
          ~trace[j].ok => EventsOf("unpack", trace[j].id) = {}

\* a run in which one source failed validation and another was unpacked
C1_Witness ==
    /\ \E j \in Events("validate") : ~trace[j].ok
    /\ Events("unpack") # {}

\* C2: once unpack has been invoked, the cleaning pass over dst and, when
\* cleanup is on and the source still exists after the pass, the deletion of
\* the source are executed before extract returns.
C2_FinalizerAlwaysRuns ==
    \A r \in Events("return") :
       \A u \in EventsOf("unpack", trace[r].id) :
          \E c \in EventsOf("clean", trace[r].id) :
             /\ u < c
             /\ (trace[c].opts.cleanup /\ trace[c].there)
                   => \E d \in EventsOf("remove", trace[r].id) : c < d

\* the paths of the request on top.zip
GoodLeaf == Data \o <<Plain("top"), Plain("good"), WithExt("leaf", "txt")>>
BadZip == Data \o <<Plain("top"), WithExt("bad", "zip")>>
GoodZip == Data \o <<Plain("top"), WithExt("good", "zip")>>

\* C3: no failure of a validation or of an unpack leaves extract or
\* extractall; in the directory with a valid and a corrupt archive, listed in
\* either order, the valid one is extracted (unless the backend failed on
\* it) and the corrupt one is never unpacked.
C3_FailureIsolation ==
    /\ status # "crashed"
    /\ (/\ status = "done" /\ req.world = "siblings" /\ req.mode = "extractall"
        /\ \A u \in Events("unpack") : trace[u].ok)
       => /\ exists(fs, GoodLeaf)
          /\ \A u \in Events("unpack") : trace[u].src # BadZip
          /\ \E v \in Events("validate") : trace[v].src = BadZip /\ ~trace[v].ok
          /\ \E u \in Events("unpack") : trace[u].src = GoodZip

\* the corrupt file was listed, and failed validation, before the valid
\* archive was extracted
C3_Witness ==
    /\ status = "done" /\ req.world = "siblings"
    /\ exists(fs, GoodLeaf)
    /\ \E v \in Events("validate"), u \in Events("unpack") :
          /\ trace[v].src = BadZip /\ ~trace[v].ok
          /\ trace[u].src = GoodZip /\ trace[u].ok
          /\ v < u

\* C4: when every probe and every unpack succeeded, every archive file below
\* the output directory of the top-level archive has had extract invoked on it.
C4_AllNestedExtracted ==
    (/\ status = "done" /\ req.mode = "extractall"
     /\ \A i \in Events("probe") \cup Events("unpack") : trace[i].ok)
    => \A p \in DOMAIN fs :
          (/\ IsPrefix(extract_dir(req.src, req.dst), p)
           /\ isfile(fs, p) /\ is_archive(p))
          => \E e \in Events("extract") : trace[e].src = p

\* the paths of the request on outer.zip
OuterZip == Data \o <<WithExt("outer", "zip")>>
InnerZip == Data \o <<Plain("outer"), WithExt("inner", "zip")>>
Leaf == Data \o <<Plain("outer"), Plain("inner"), WithExt("leaf", "txt")>>

\* C5: outer.zip holds inner.zip, which holds leaf.txt.  When nothing
\* failed, extractall leaves Data/outer/inner/leaf.txt; with cleanup neither
\* archive is left, without cleanup both are.
C5_NestedCleanup ==
    (/\ status = "done" /\ req.world = "nested" /\ req.mode = "extractall"
     /\ NoFaultYet)
    => /\ isfile(fs, Leaf)
       /\ req.opts.cleanup => ~exists(fs, OuterZip) /\ ~exists(fs, InnerZip)
       /\ ~req.opts.cleanup => isfile(fs, OuterZip) /\ isfile(fs, InnerZip)

\* the run on outer.zip with cleanup on has returned and nothing failed
C5_Witness ==
    /\ status = "done" /\ req.world = "nested" /\ req.mode = "extractall"
    /\ NoFaultYet /\ req.opts.cleanup
    /\ isfile(fs, Leaf) /\ ~exists(fs, InnerZip)

\* C6: no path is the source of two calls of extractall in one run.
C6_NoRepeatedPath ==
    \A i, j \in Events("extractall") : i # j => trace[i].src # trace[j].src

\* the top-level call comes to an end, for a program that keeps taking
\* its next step (FairSpec)
Terminates == <>(status \in {"done", "crashed"})

\* C7: a call of extract whose validation returned false leaves the
\* filesystem as it found it and invokes neither unpack, nor the cleaning
\* pass, nor the deletion of the source.
C7_InvalidNoEffect ==
    (/\ ex.pc = "ret"
     /\ \E v \in EventsOf("validate", ex.id) : ~trace[v].ok)
    => /\ fs = ex.fs0
       /\ \A k \in {"unpack", "finally", "clean", "remove"} : EventsOf(k, ex.id) = {}

\* validation failed with cleanup on and an artifact lying in dst
C7_Witness ==
    /\ ex.pc = "ret" /\ ex.opts.cleanup
    /\ \E v \in EventsOf("validate", ex.id) : ~trace[v].ok
    /\ \E p \in DOMAIN fs : IsPrefix(ex.dst, p) /\ p # ex.dst /\ is_auto_generated(p)
    /\ exists(fs, ex.src)

\* C8: os.remove(src) is attempted only after the unpack of the same call
\* has completed and only on a source that exists; until its unpack has
\* completed the source of the active call is not deleted.
C8_DeleteAfterUnpack ==
    /\ \A d \in Events("remove") :
          /\ trace[d].there
          /\ \E u \in EventsOf("unpack", trace[d].id) : u < d
    /\ (ex.pc # "idle" /\ exists(ex.fs0, ex.src) /\ EventsOf("unpack", ex.id) = {})
          => exists(fs, ex.src)

\* the source was deleted after an unpack that failed
C8_Witness ==
    \E d \in Events("remove") :
       /\ trace[d].ok /\ ~exists(fs, trace[d].src)
       /\ \E u \in EventsOf("unpack", trace[d].id) : u < d /\ ~trace[u].ok

\* C9: test_archive returns true exactly when is_archive holds and the probe
\* succeeded; without is_archive the probe is not invoked; a failure of the
\* probe never leaves test_archive.
C9_Validate ==
    /\ status # "crashed"
    /\ \A v \in Events("validate") :
          /\ trace[v].ok <=>
                /\ is_archive(trace[v].src)
                /\ \E q \in EventsOf("probe", trace[v].id) : q < v /\ trace[q].ok
          /\ ~is_archive(trace[v].src) => EventsOf("probe", trace[v].id) = {}
    /\ \A q \in Events("probe") :
          \E v \in EventsOf("validate", trace[q].id) : q < v

\* the probe failed on a file with an archive extension
C9_Witness ==
    \E v \in Events("validate"), q \in Events("probe") :
       /\ trace[q].id = trace[v].id /\ q < v
       /\ ~trace[q].ok /\ ~trace[v].ok /\ is_archive(trace[v].src)

\* C10: if cleanup is on and the source exists after the unpack attempt, a
\* source that is still there when extract returns has had its deletion
\* attempted, whatever happened in the cleaning pass.
C10_SourceDeletedAfterAnyPass ==
    \A r \in Events("return") :
       \A f \in EventsOf("finally", trace[r].id) :
          (trace[r].opts.cleanup /\ trace[f].there /\ trace[r].there)
             => EventsOf("remove", trace[r].id) # {}

\* the program is sequential: whenever it has a next step, it takes it
FairSpec == Spec /\ WF_vars(Next)

\* the paths of the request on bundle.zip
PartZip == Data \o <<Plain("bundle"), WithExt("part", "zip")>>
PartLeaf == Data \o <<Plain("bundle"), Plain("part"), WithExt("leaf", "txt")>>

\* the finalizer of some call met a filesystem failure
FinalizerFailed(i) == trace[i].k \in {"clean", "remove"} /\ ~trace[i].ok

\* C11: a filesystem failure in the finalizer (a removal of an artifact or
\* the deletion of the source) leaves neither extract nor extractall, and
\* the run goes on: the nested archive is still descended into and the
\* remaining siblings are still processed.
C11_FinalizerFailureAbsorbed ==
    /\ status # "crashed"
    /\ \A r \in Events("return") : trace[r].ok
    /\ \A i \in DOMAIN trace :
          FinalizerFailed(i) =>
             \/ ex.id = trace[i].id /\ ex.pc = "ret"
             \/ \E r \in EventsOf("return", trace[i].id) : r = i + 1
    /\ (/\ status = "done" /\ req.mode = "extractall"
        /\ \A u \in Events("unpack") : trace[u].ok)
       => /\ req.world = "macnested" =>
                \E e \in Events("extract") : trace[e].src = PartZip
          /\ req.world = "siblings" =>
                /\ \E e \in Events("extract") : trace[e].src = GoodZip
                /\ \E e \in Events("extract") : trace[e].src = BadZip

\* the removal of an artifact failed in the top-level call, and the nested
\* archive was extracted afterwards
C11_Witness ==
    /\ status = "done" /\ req.world = "macnested"
    /\ isfile(fs, PartLeaf)
    /\ \E c \in EventsOf("clean", 1), u \in Events("unpack") :
          /\ ~trace[c].ok /\ c < u
          /\ trace[u].src = PartZip /\ trace[u].ok

\* some name of p strictly below root is classified as an artifact
ArtifactBelow(root, p) ==
    \E n \in (Len(root) + 1)..Len(p) :
       IsPrefix(root, p) /\ is_auto_generated(SubSeq(p, 1, n))

\* C12: when a cleaning pass over dst has ended without a filesystem
\* failure, no path strictly below dst is classified as an artifact, and
\* every path that had no artifact name below dst is still there with its
\* content; nothing has been added.
C12_ArtifactsRemoved ==
    ex.pc = "remove" =>
       /\ \A p \in DOMAIN fs : ~ArtifactBelow(ex.dst, p)
       /\ \A p \in DOMAIN ex.fs1 :
             ~ArtifactBelow(ex.dst, p) => p \in DOMAIN fs /\ fs[p] = ex.fs1[p]
       /\ DOMAIN fs \subseteq DOMAIN ex.fs1

\* the pass has ended although it had removed an artifact directory with a
\* child in it, which the walk then found gone
C12_Witness ==
    /\ ex.pc = "remove"
    /\ \E p \in DOMAIN ex.fs1 :
          /\ IsPrefix(ex.dst, p) /\ Len(p) = Len(ex.dst) + 2
          /\ is_auto_generated(SubSeq(p, 1, Len(p) - 1))
          /\ ~exists(fs, p)
    /\ \E p \in DOMAIN fs : Len(p) = Len(ex.dst) + 2 /\ IsPrefix(ex.dst, p)

(***************************************************************************)
(* The cleaning pass on its own: the loop of the finalizer of extract run  *)
(* on a tree, and run once more on the tree it leaves.                     *)
(***************************************************************************)
CleanWorlds == {"artifacts", "macnested", "litter"}

\* the trees the pass is run on: what an unpack left below Data, and a
\* directory with several artifacts side by side
CleanTree(w) ==
    IF w = "litter"
    THEN FsOf({At(Data, "dir"),
               At(join(Data, <<".", "DS_Store">>), "data"),
               At(join(Data, WithExt("Thumbs", "db")), "data"),
               At(join(Data, WithExt("keep", "txt")), "data"),
               At(join(Data, Plain("__MACOSX")), "dir"),
               At(join(join(Data, Plain("__MACOSX")), <<"._", "keep", ".", "txt">>), "data"),
               At(join(Data, Plain("sub")), "dir"),
               At(join(join(Data, Plain("sub")), <<".", "DS_Store">>), "data"),
               At(join(join(Data, Plain("sub")), WithExt("Thumbs", "db")), "data")})
    ELSE unpack(WorldFs(w), WorldSrc(w), Data)

CleanSrc(w) == IF w = "litter" THEN join(Data, WithExt("keep", "txt")) ELSE WorldSrc(w)

\* the pass starts: for root, dirs, files in os.walk(dst)
InitClean ==
    /\ \E w \in CleanWorlds, o \in OptionSets :
          /\ req = [world |-> w, mode |-> "clean", src |-> CleanSrc(w), dst |-> Data, opts |-> o]
          /\ fs = CleanTree(w)
          /\ ex = [Call(1, CleanSrc(w), Data, o, CleanTree(w)) EXCEPT !.pc = "walk"]
          /\ trace = <<Ev("finally", 1, CleanSrc(w), Data, TRUE, TRUE, o)>>
    /\ stack = <<>>
    /\ walk = [NoWalk EXCEPT !.stack = <<Data>>]
    /\ faults = [fs |-> MaxFsFaults, backend |-> MaxBackendFaults]
    /\ status = "running"

\* the pass is run again, on the tree the first pass left
SecondPass ==
    /\ status = "running" /\ req.mode = "clean"
    /\ ex.pc = "remove" /\ Count("finally") = 1
    /\ ex' = [ex EXCEPT !.pc = "walk", !.fs1 = fs]
    /\ walk' = [NoWalk EXCEPT !.stack = <<ex.dst>>]
    /\ trace' = Append(trace, Log("finally", TRUE))
    /\ UNCHANGED <<req, fs, stack, faults, status>>

NextClean ==
    \/ WalkNext
    \/ WalkDir
    \/ WalkFile
    \/ SecondPass

CleanSpec == InitClean /\ [][NextClean]_vars

\* C13: the artifact-cleaning pass is idempotent: a second pass over the
\* tree a first (complete) pass left removes nothing, attempts no removal,
\* and leaves the tree identical to the one it started on.
C13_CleanIdempotent ==
    (req.mode = "clean" /\ Count("finally") = 2) =>
        /\ fs = ex.fs1
        /\ \A c \in Events("clean") : trace[c].ok
        /\ ex.pc \in {"walk", "remove"}

C13_Witness ==
    /\ req.mode = "clean" /\ Count("clean") = 2 /\ ex.pc = "remove"
    /\ req.world = "litter"
    /\ fs # CleanTree(req.world)
    /\ DOMAIN fs = {Data, join(Data, WithExt("keep", "txt")), join(Data, Plain("sub"))}

MacLeaf == Data \o <<Plain("mac"), WithExt("leaf", "txt")>>

\* C14: structure preservation as a frame condition: a step that is not the
\* backend's unpack creates no path and changes no content, and every path
\* it removes either lies at or below an artifact-classified path under the
\* call's destination_dir or is the call's source archive with cleanup on;
\* the unpack itself touches only the paths of the archive's entries.
C14_Frame ==
    [][ IF ex.pc = "unpack"
        THEN \A p \in DOMAIN fs :
                /\ p \in DOMAIN fs'
                /\ fs'[p] # fs[p] => p \in {w.p : w \in Written(fs, ex.src, ex.dst)}
        ELSE /\ DOMAIN fs' \subseteq DOMAIN fs
             /\ \A p \in DOMAIN fs' : fs'[p] = fs[p]
             /\ \A p \in DOMAIN fs \ DOMAIN fs' :
                   \/ ArtifactBelow(ex.dst, p)
                   \/ p = ex.src /\ ex.opts.cleanup /\ ex.pc = "remove" ]_vars

C14_Witness ==
    /\ status = "done" /\ req.world = "artifacts" /\ req.opts.cleanup
    /\ ~exists(fs, req.src)
    /\ isfile(fs, MacLeaf)
    /\ isdir(fs, Data \o <<Plain("mac"), Plain("sub")>>)
    /\ \A p \in DOMAIN fs : ~ArtifactBelow(Data, p)
    /\ DOMAIN fs = (DOMAIN unpack(WorldFs("artifacts"), req.src, Data))
                      \ ({req.src} \cup {q \in DOMAIN unpack(WorldFs("artifacts"), req.src, Data) :
                                            ArtifactBelow(Data, q)})

\* C15: every recursive call of extractall is made by a call whose own
\* source passed validation and was unpacked, on a child of the directory
\* that unpack produced; a call whose source failed validation makes no
\* recursive call, even if destination_dir/<stem> already existed.
C15_RecursesOnlyIntoOwnOutput ==
    \A i \in 2..Len(stack) :
        /\ \E v \in EventsOf("validate", stack[i - 1].id) : trace[v].ok
        /\ \E u \in EventsOf("unpack", stack[i - 1].id) : u < Len(trace)
        /\ stack[i].dst = stack[i - 1].dir

\* the directory a call of extractall is expected to look into: the name of
\* its source without the extension, below its destination
Expected(e) ==
    LET name == trace[e].src[Len(trace[e].src)]
        stem == IF HasExt(name) THEN SubSeq(name, 1, LastDot(name) - 1) ELSE name
    IN  trace[e].dst \o <<stem>>

\* the recursive calls a frame has made so far: those made on its directory
\* since it listed that directory
MadeBy(f) ==
    {x \in Events("extractall") :
        /\ trace[x].dst = f.dir
        /\ \E l \in EventsOf("listdir", f.id) : l < x}

ArchiveChildren(dir, names) == {dir \o <<n>> : n \in {m \in names : is_archive(dir \o <<m>>)}}

Visited(f) == f.listed \ {f.todo[i] : i \in DOMAIN f.todo}

\* C16: the descent targets of extractall.  After the single-level
\* extraction the call looks at destination_dir/<basename of source without
\* extension>; when that is not an existing directory it returns at once,
\* with no recursive call and no error; otherwise it lists the directory once
\* and calls extractall exactly once for each listed child that is_archive
\* accepts, with the child as source and the directory as destination, and
\* for no other child.
C16_DescentTargets ==
    /\ \A l \in Events("listdir") :
          /\ \E e \in EventsOf("extractall", trace[l].id) :
                /\ e < l
                /\ trace[l].dst = Expected(e)
                /\ \E r \in EventsOf("return", trace[l].id) : e < r /\ r < l /\ trace[r].ok
          /\ l = Len(trace) => (trace[l].ok /\ isdir(fs, trace[l].dst))
          /\ ~trace[l].ok =>
                /\ l < Len(trace)
                /\ trace[l + 1].k = "leave" /\ trace[l + 1].id = trace[l].id
                /\ l + 1 = Len(trace) => (~isdir(fs, trace[l].dst) /\ status # "crashed")
    /\ \A i \in DOMAIN stack :
          stack[i].pc = "loop" =>
             /\ \E l \in EventsOf("listdir", stack[i].id) :
                   trace[l].ok /\ trace[l].dst = stack[i].dir
             /\ (i = Len(stack) /\ trace[Len(trace)].k = "listdir")
                   => stack[i].listed = listdir(fs, stack[i].dir)
             /\ {trace[x].src : x \in MadeBy(stack[i])}
                   = ArchiveChildren(stack[i].dir, Visited(stack[i]))
             /\ Cardinality(MadeBy(stack[i]))
                   = Cardinality(ArchiveChildren(stack[i].dir, Visited(stack[i])))

C16_Witness ==
    /\ stack # <<>> /\ Top.pc = "loop" /\ Top.todo = <<>>
    /\ \E n, m \in Top.listed : is_archive(join(Top.dir, n)) /\ ~is_archive(join(Top.dir, m))
    /\ MadeBy(Top) # {}
    /\ \E l \in Events("listdir") : ~trace[l].ok

\* C17: no retry: within one top-level call of extractall the backend's
\* probe is invoked at most once on any source path, and so is the backend's
\* unpack, whether the attempt succeeds or fails.
C17_NoRetry ==
    req.mode = "extractall" =>
        /\ \A i, j \in Events("probe") : trace[i].src = trace[j].src => i = j
        /\ \A i, j \in Events("unpack") : trace[i].src = trace[j].src => i = j

\* C18: options pass-through: the option values (verbosity, program,
\* interactive, password, cleanup) of every call of extractall and of
\* extract, and those every probe and every unpack is invoked with, at any
\* depth, are the values the top-level call was given.
C18_OptionsPassThrough ==
    /\ \A i \in DOMAIN trace :
          trace[i].k \in {"extractall", "extract", "probe", "unpack"} => trace[i].opts = req.opts
    /\ \A i \in DOMAIN stack : stack[i].opts = req.opts
    /\ ex.pc # "idle" => ex.opts = req.opts

C18_Witness ==
    /\ req.mode = "extractall" /\ req.opts.password = "secret" /\ req.opts.cleanup
    /\ \E a \in Events("extractall"), b \in Events("probe"), c \in Events("unpack") :
          /\ trace[a].id >= 2 /\ trace[b].id = trace[a].id /\ trace[c].id = trace[a].id
          /\ trace[a].src = InnerZip
          /\ trace[b].opts.password = "secret" /\ trace[c].opts.cleanup

\* the calls of extract and of extractall whose source existed when they
\* were made
Entries == {e \in Events("extract") \cup Events("extractall") : trace[e].there}

\* C19, as claimed: with cleanup off no call of extract or of extractall
\* removes the source archive it was given, wherever that source lies.
C19_SourceKeptWithoutCleanup ==
    ~req.opts.cleanup => \A e \in Entries : exists(fs, trace[e].src)

\* C19, amended: with cleanup off the deletion of the source (os.remove(src))
\* is never attempted, and the source a call was given still exists unless
\* it lies at or below an artifact-classified path under the destination of
\* a cleaning pass that ran after the call was made.
C19_SourceKeptUnlessArtifact ==
    ~req.opts.cleanup =>
        /\ Events("remove") = {}
        /\ \A e \in Entries :
              \/ exists(fs, trace[e].src)
              \/ \E f \in Events("finally") :
                    e < f /\ ArtifactBelow(trace[f].dst, trace[e].src)

C19_Witness ==
    /\ status = "done" /\ req.world = "nested" /\ req.mode = "extractall"
    /\ ~req.opts.cleanup
    /\ isfile(fs, OuterZip) /\ isfile(fs, InnerZip) /\ isfile(fs, Leaf)
    /\ \E e \in Entries, f \in Events("finally") :
          trace[e].src = InnerZip /\ e < f /\ IsPrefix(trace[f].dst, InnerZip)

\* C20: when the top-level source passed validation and no removal of a
\* finalizer failed, no artifact-classified path is left anywhere under the
\* top-level destination_dir once extractall has returned, the outputs of
\* the nested archives included.
C20_NoArtifactLeft ==
    (/\ status = "done" /\ req.mode = "extractall"
     /\ \E v \in EventsOf("validate", 1) : trace[v].ok
     /\ \A i \in DOMAIN trace : ~FinalizerFailed(i))
    => \A p \in DOMAIN fs : ~ArtifactBelow(req.dst, p)

C20_Witness ==
    /\ status = "done" /\ req.mode = "extractall" /\ req.world = "macnested"
    /\ \A i \in DOMAIN trace : ~FinalizerFailed(i)
    /\ \E u \in Events("unpack") : trace[u].src = PartZip /\ trace[u].ok /\ trace[u].id >= 2
    /\ isfile(fs, PartLeaf)
    /\ ~exists(fs, Data \o <<Plain("bundle"), Plain("part"), WithExt("Thumbs", "db")>>)
    /\ ~exists(fs, Data \o <<Plain("bundle"), Plain("__MACOSX")>>)

====
